---- MODULE Spec2Model ----
(***************************************************************************)
(* rustbelt: resolution of the network endpoint a server is bound to.     *)
(*                                                                         *)
(* The repository holds two implementations of the resolution: the        *)
(* library's run_rustbelt / get_network_socket (src/src/lib.rs) and the   *)
(* binary's main (src/src/main.rs), which carries its own inline copy.    *)
(* Both are modelled; the variable entry says which one runs.             *)
(*                                                                         *)
(* Text is modelled as a sequence of one-character strings, so that       *)
(* formatting, trimming, parsing and sorting are computed, not assumed.   *)
(***************************************************************************)
EXTENDS Integers, Sequences, FiniteSets, TLC

VARIABLES
    entry,              \* "lib" | "main": the implementation that runs
    overflow_checks,    \* build profile: TRUE = arithmetic overflow panics
    os_ifs,             \* the operating system's interface table
    os_changes,         \* number of changes of the table so far
    args,               \* the command line (clap::ArgMatches)
    stdin,              \* the lines not yet read from standard input
    stdin0,             \* the input stream as it was at program start
    io,                 \* terminal events in order: lines printed, lines read
    pc,                 \* position of the program
    steps,              \* the resolution steps executed, in order
    interface_map,      \* the catalog snapshot of the resolution
    interface_names,    \* the candidate names presented by the prompt
    network_interface,  \* the chosen interface record
    ip_choice,          \* (ipaddr_count, ipaddr_string) of the address prompt
    endpoint,           \* (url, socket) returned by the resolution
    err,                \* the error or panic that ended the resolution
    top_err,            \* the error returned by the outermost function
    server_started,     \* run_http_server was called
    sel_choice,         \* select_item under test: its input line
    sel_choices,        \* select_item under test: its candidates
    sel_result,         \* select_item under test: its result
    cat_os,             \* get_network_interfaces under test: the OS table
    cat_result,         \* get_network_interfaces under test: its result
    url_ip,             \* create_url under test: its IpString
    url_port,           \* create_url under test: its port
    url_result,         \* create_url under test: its result
    v6_segments,        \* the IPv6 display under test: the eight segments
    v6_result           \* the IPv6 display under test: the string

vars == << entry, overflow_checks, os_ifs, os_changes, args, stdin, stdin0, io,
           pc, steps, interface_map, interface_names, network_interface,
           ip_choice, endpoint, err, top_err, server_started,
           sel_choice, sel_choices, sel_result, cat_os, cat_result,
           url_ip, url_port, url_result, v6_segments, v6_result >>

pipeline_vars == << entry, os_ifs, os_changes, args, stdin, stdin0, io,
                    pc, steps, interface_map, interface_names, network_interface,
                    ip_choice, endpoint, err, top_err, server_started >>

select_vars == << sel_choice, sel_choices, sel_result >>

catalog_vars == << cat_os, cat_result >>

format_vars == << url_ip, url_port, url_result, v6_segments, v6_result >>

None == [kind |-> "None"]

(***************************************************************************)
(* Bounds of the model.                                                    *)
(***************************************************************************)
\* width of usize in bits, scaled down from 64 so that overflow is reachable
UsizeBits == 4
\* longest input line handed to select_item under test
MaxLineLen == 3
\* longest candidate sequence handed to select_item under test
MaxChoices == 3
\* longest operating-system interface table handed to get_network_interfaces
MaxIfs == 2
\* how often the operating system's table may change during one run
MaxOsChanges == 1

USIZE_MAX == 2 ^ UsizeBits - 1

U16_MAX == 2 ^ 16 - 1

(***************************************************************************)
(* Text.                                                                   *)
(***************************************************************************)
Digits == << "0", "1", "2", "3", "4", "5", "6", "7", "8", "9" >>

HexDigits == << "0", "1", "2", "3", "4", "5", "6", "7", "8", "9",
                "a", "b", "c", "d", "e", "f" >>

IsDigit(c) == \E i \in 1..10 : Digits[i] = c

DigitVal(c) == (CHOOSE i \in 1..10 : Digits[i] = c) - 1

\* the White_Space characters str::trim removes, as far as the inputs use them
IsWhitespace(c) == c \in { " ", "\t", "\n", "\r" }

RECURSIVE TrimStart(_)
TrimStart(s) ==
    IF s # << >> /\ IsWhitespace(Head(s)) THEN TrimStart(Tail(s)) ELSE s

RECURSIVE TrimEnd(_)
TrimEnd(s) ==
    IF s # << >> /\ IsWhitespace(s[Len(s)])
    THEN TrimEnd(SubSeq(s, 1, Len(s) - 1))
    ELSE s

\* str::trim
Trim(s) == TrimEnd(TrimStart(s))

\* Display of an unsigned integer: decimal, no padding, no sign
RECURSIVE ToDecimal(_)
ToDecimal(n) ==
    IF n < 10 THEN << Digits[n + 1] >>
    ELSE ToDecimal(n \div 10) \o << Digits[(n % 10) + 1] >>

\* {:x} of an unsigned integer: lowercase hexadecimal, no padding
RECURSIVE ToHex(_)
ToHex(n) ==
    IF n < 16 THEN << HexDigits[n + 1] >>
    ELSE ToHex(n \div 16) \o << HexDigits[(n % 16) + 1] >>

\* the digits of a usize, most significant first (core::num from_str_radix):
\* a character that is no digit is InvalidDigit, a value above max PosOverflow
RECURSIVE ParseDigits(_, _, _)
ParseDigits(digits, acc, max) ==
    IF digits = << >> THEN [ok |-> TRUE, val |-> acc]
    ELSE IF ~IsDigit(Head(digits)) THEN [ok |-> FALSE, kind |-> "InvalidDigit"]
    ELSE IF acc * 10 > max THEN [ok |-> FALSE, kind |-> "PosOverflow"]
    ELSE IF acc * 10 + DigitVal(Head(digits)) > max
         THEN [ok |-> FALSE, kind |-> "PosOverflow"]
    ELSE ParseDigits(Tail(digits), acc * 10 + DigitVal(Head(digits)), max)

\* str::parse of an unsigned type: an optional "+", then digits; "-" is no digit
ParseUnsigned(s, max) ==
    IF s = << >> THEN [ok |-> FALSE, kind |-> "Empty"]
    ELSE IF s = << "+" >> \/ s = << "-" >> THEN [ok |-> FALSE, kind |-> "InvalidDigit"]
    ELSE IF Head(s) = "+" THEN ParseDigits(Tail(s), 0, max)
    ELSE ParseDigits(s, 0, max)

\* choice.trim().parse::<usize>()
ParseUsize(s) == ParseUnsigned(Trim(s), USIZE_MAX)

\* matches.value_of("port").unwrap().parse::<u16>()
ParseU16(s) == ParseUnsigned(s, U16_MAX)

(***************************************************************************)
(* Errors.                                                                 *)
(***************************************************************************)
ChoiceError_new(low, high) == [kind |-> "ChoiceError", low |-> low, high |-> high]

\* Display of ChoiceError
ChoiceError_fmt(e) ==
    << "N", "o", "t", " ", "a", " ", "v", "a", "l", "i", "d", " ",
       "c", "h", "o", "i", "c", "e", ".", " ", "M", "u", "s", "t", " ",
       "b", "e", " ", "b", "e", "t", "w", "e", "e", "n", " " >>
    \o ToDecimal(e.low) \o << " ", "a", "n", "d", " " >> \o ToDecimal(e.high)

NetworkInterfaceExistanceError_new(interface) ==
    [kind |-> "NetworkInterfaceExistanceError", interface |-> interface]

\* Display of NetworkInterfaceExistanceError
NetworkInterfaceExistanceError_fmt(e) ==
    << "T", "h", "e", " ", "g", "i", "v", "e", "n", " ", "n", "e", "t", "w", "o",
       "r", "k", " ", "i", "n", "t", "e", "r", "f", "a", "c", "e", " ", "d", "o",
       "e", "s", "n", "'", "t", " ", "e", "x", "i", "s", "t", ":", " " >>
    \o e.interface

\* Err(Box::new(e)) of a ParseIntError
ParseError(cause) == [kind |-> "ParseError", cause |-> cause]

\* a panic unwinds the thread; it is no value of the Result type
Panic(msg) == [kind |-> "Panic", msg |-> msg]

(***************************************************************************)
(* Selection.                                                              *)
(***************************************************************************)
\* a - b on usize: below zero it panics with overflow checks on (debug
\* profile) and wraps modulo 2^UsizeBits with them off (release profile)
UsizeSub(a, b) ==
    IF a >= b THEN [panic |-> FALSE, val |-> a - b]
    ELSE IF overflow_checks THEN [panic |-> TRUE]
    ELSE [panic |-> FALSE, val |-> (a - b + 2 ^ UsizeBits) % (2 ^ UsizeBits)]

\* seq[i] on a slice or Vec: the index is checked, and one at or beyond the
\* length panics
Index(seq, i) ==
    IF i < Len(seq) THEN [panic |-> FALSE, val |-> seq[i + 1]]
    ELSE [panic |-> TRUE]

IndexOutOfBounds == Panic("index out of bounds")

\* BoundsCheck accepting the number of candidates itself as a choice
BoundsCheck_OffByOne(choice_num, n, choices) ==
    IF choice_num > n
    THEN LET high == UsizeSub(n, 1)
         IN  IF high.panic THEN Panic("attempt to subtract with overflow")
             ELSE ChoiceError_new(0, high.val)
    ELSE LET item == Index(choices, choice_num)
         IN  IF item.panic THEN IndexOutOfBounds
             ELSE [kind |-> "Ok", index |-> choice_num, value |-> item.val]

\* BoundsCheck returning the label counted from the end of the candidates
BoundsCheck_LabelFromEnd(choice_num, n, choices) ==
    IF choice_num >= n
    THEN LET high == UsizeSub(n, 1)
         IN  IF high.panic THEN Panic("attempt to subtract with overflow")
             ELSE ChoiceError_new(0, high.val)
    ELSE [kind |-> "Ok", index |-> choice_num, value |-> choices[n - choice_num]]

\* BoundsCheck reporting the number of candidates as the high bound
BoundsCheck_HighIsLen(choice_num, n, choices) ==
    IF choice_num >= n
    THEN ChoiceError_new(0, n)
    ELSE [kind |-> "Ok", index |-> choice_num, value |-> choices[choice_num + 1]]

\* the check of the parsed number against the number of candidates; n is
\* the length compared against, choices the sequence indexed
BoundsCheck(choice_num, n, choices) ==
    IF choice_num >= n
    THEN LET high == UsizeSub(n, 1)
         IN  IF high.panic THEN Panic("attempt to subtract with overflow")
             ELSE ChoiceError_new(0, high.val)
    ELSE LET item == Index(choices, choice_num)
         IN  IF item.panic THEN IndexOutOfBounds
             ELSE [kind |-> "Ok", index |-> choice_num, value |-> item.val]

\* select_item taking a line that does not parse for the choice 0
select_item_ParseDefaultsToZero(choice, choices) ==
    LET parsed == ParseUsize(choice)
    IN  IF ~parsed.ok THEN BoundsCheck(0, Len(choices), choices)
        ELSE BoundsCheck(parsed.val, Len(choices), choices)

select_item(choice, choices) ==
    LET parsed == ParseUsize(choice)
    IN  IF ~parsed.ok THEN ParseError(parsed.kind)
        ELSE BoundsCheck(parsed.val, Len(choices), choices)

(***************************************************************************)
(* select_item on its own: every line and candidate sequence within the   *)
(* bounds, as the property tests of lib.rs call it.                       *)
(***************************************************************************)
SeqsUpTo(S, n) == UNION { [1..k -> S] : k \in 0..n }

LineAlphabet == { "0", "1", "2", "+", "-", " ", "x" }

Labels == { << "a" >>, << "b" >> }

PipelineIdle ==
    /\ entry = "none"
    /\ os_ifs = << >>
    /\ os_changes = 0
    /\ args = None
    /\ stdin = << >>
    /\ stdin0 = << >>
    /\ io = << >>
    /\ pc = "idle"
    /\ steps = << >>
    /\ interface_map = None
    /\ interface_names = << >>
    /\ network_interface = None
    /\ ip_choice = None
    /\ endpoint = None
    /\ err = None
    /\ top_err = None
    /\ server_started = FALSE

SelectIdle ==
    /\ sel_choice = << >>
    /\ sel_choices = << >>
    /\ sel_result = None

CatalogIdle ==
    /\ cat_os = << >>
    /\ cat_result = None

FormatIdle ==
    /\ url_ip = None
    /\ url_port = 0
    /\ url_result = None
    /\ v6_segments = << >>
    /\ v6_result = None

InitSelect ==
    /\ overflow_checks \in BOOLEAN
    /\ sel_choice \in SeqsUpTo(LineAlphabet, MaxLineLen)
    /\ sel_choices \in SeqsUpTo(Labels, MaxChoices)
    /\ sel_result = [kind |-> "Pending"]
    /\ PipelineIdle
    /\ CatalogIdle
    /\ FormatIdle

CallSelectItem ==
    /\ sel_result.kind = "Pending"
    /\ sel_result' = select_item(sel_choice, sel_choices)
    /\ UNCHANGED << sel_choice, sel_choices, overflow_checks >>
    /\ UNCHANGED pipeline_vars
    /\ UNCHANGED catalog_vars
    /\ UNCHANGED format_vars

NextSelect == CallSelectItem

SpecSelect == InitSelect /\ [][NextSelect]_vars

(***************************************************************************)
(* Claims about select_item (checked under SpecSelect).                    *)
(***************************************************************************)
SelectReturned == sel_result.kind # "Pending"

\* the value a sequence of decimal digits denotes, as a mathematical integer
RECURSIVE DecimalValue(_)
DecimalValue(s) ==
    IF s = << >> THEN 0
    ELSE DecimalValue(SubSeq(s, 1, Len(s) - 1)) * 10 + DigitVal(s[Len(s)])

AllDigits(s) == s # << >> /\ \A k \in 1..Len(s) : IsDigit(s[k])

\* the line, without surrounding white space, is a decimal numeral
IsNumeric(line) == AllDigits(Trim(line))

\* the line, without surrounding white space, writes a non-negative integer:
\* a decimal numeral, with or without a plus sign in front
IsNonNegInt(line) ==
    LET t == Trim(line)
    IN  \/ AllDigits(t)
        \/ t # << >> /\ Head(t) = "+" /\ AllDigits(Tail(t))

BoundsMessage(n) ==
    << "N", "o", "t", " ", "a", " ", "v", "a", "l", "i", "d", " ",
       "c", "h", "o", "i", "c", "e", ".", " ", "M", "u", "s", "t", " ",
       "b", "e", " ", "b", "e", "t", "w", "e", "e", "n", " ", "0",
       " ", "a", "n", "d", " " >> \o ToDecimal(n - 1)

\* C1: for candidates of length n > 0 and every index i in 0..n-1, select_item
\* given the decimal text of i returns exactly Ok((i, candidates[i])).
C1_ValidIndexSelects ==
    SelectReturned =>
        \A i \in 0..(Len(sel_choices) - 1) :
            sel_choice = ToDecimal(i) =>
                sel_result = [kind |-> "Ok", index |-> i, value |-> sel_choices[i + 1]]

C1_Witness ==
    /\ sel_choice = << "2" >>
    /\ sel_choices = << << "a" >>, << "a" >>, << "b" >> >>
    /\ sel_result = [kind |-> "Ok", index |-> 2, value |-> << "b" >>]

\* C2 as claimed: for n >= 1 candidates and every numeric input j >= n,
\* select_item fails with ChoiceError(0, n-1) and its exact message.
C2_Original ==
    ( /\ SelectReturned
      /\ Len(sel_choices) >= 1
      /\ IsNumeric(sel_choice)
      /\ DecimalValue(Trim(sel_choice)) >= Len(sel_choices) )
    => /\ sel_result = ChoiceError_new(0, Len(sel_choices) - 1)
       /\ ChoiceError_fmt(sel_result) = BoundsMessage(Len(sel_choices))

\* C2 as amended: for n >= 1 candidates and every numeric input j with
\* n <= j <= usize::MAX, select_item fails with ChoiceError(0, n-1) and the
\* message "Not a valid choice. Must be between 0 and {n-1}"; a numeric input
\* above usize::MAX fails with a ParseError; and no ChoiceError select_item
\* raises for n >= 1 carries other bounds than (0, n-1).
C2_BoundsErrorWithinUsize ==
    ( SelectReturned /\ Len(sel_choices) >= 1 ) =>
        /\ ( /\ IsNumeric(sel_choice)
             /\ DecimalValue(Trim(sel_choice)) >= Len(sel_choices)
             /\ DecimalValue(Trim(sel_choice)) <= USIZE_MAX )
           => /\ sel_result = ChoiceError_new(0, Len(sel_choices) - 1)
              /\ ChoiceError_fmt(sel_result) = BoundsMessage(Len(sel_choices))
        /\ ( IsNumeric(sel_choice) /\ DecimalValue(Trim(sel_choice)) > USIZE_MAX )
           => sel_result.kind = "ParseError"
        /\ sel_result.kind = "ChoiceError"
           => /\ sel_result.low = 0
              /\ sel_result.high = Len(sel_choices) - 1

C2_Witness ==
    /\ sel_choice = << "1", "2" >>
    /\ Len(sel_choices) = 3
    /\ sel_result = ChoiceError_new(0, 2)

\* C3: a line that is not a non-negative integer yields a ParseError for
\* every candidate sequence, the empty one included; select_item succeeds
\* only when the line writes a non-negative integer.
C3_NonIntegerIsParseError ==
    SelectReturned =>
        /\ ~IsNonNegInt(sel_choice) => sel_result.kind = "ParseError"
        /\ sel_result.kind = "Ok" => IsNonNegInt(sel_choice)

C3_Witness ==
    /\ sel_choice = << "-", "1" >>
    /\ sel_choices = << >>
    /\ overflow_checks
    /\ sel_result.kind = "ParseError"

(***************************************************************************)
(* Addresses and interfaces.                                               *)
(*   ipnetwork::IpNetwork    [fam, ip, prefix]: ip is 4 octets (V4) or    *)
(*                           8 segments of 16 bits (V6)                    *)
(*   datalink::NetworkInterface   [name, ips]                              *)
(*   HashMap<String, NetworkInterface>   a function on the set of names   *)
(***************************************************************************)
RECURSIVE Join(_, _)
Join(parts, sep) ==
    IF Len(parts) = 0 THEN << >>
    ELSE IF Len(parts) = 1 THEN parts[1]
    ELSE parts[1] \o sep \o Join(Tail(parts), sep)

\* a display that leaves a zero segment out, as the compressed form does
IpDisplay_ZeroOmitted(ip) ==
    IF ip.fam = "V4"
    THEN Join([k \in 1..4 |-> ToDecimal(ip.ip[k])], << "." >>)
    ELSE Join([k \in 1..8 |-> IF ip.ip[k] = 0 THEN << >> ELSE ToHex(ip.ip[k])],
              << ":" >>)

\* format!("{}.{}.{}.{}", octets) and format!("{:x}:...:{:x}", segments)
IpDisplay(ip) ==
    IF ip.fam = "V4"
    THEN Join([k \in 1..4 |-> ToDecimal(ip.ip[k])], << "." >>)
    ELSE Join([k \in 1..8 |-> ToHex(ip.ip[k])], << ":" >>)

\* the mapping closure of get_network_socket: an IpNetwork to its IpString
ToIpString(ip) == [fam |-> ip.fam, s |-> IpDisplay(ip)]

EmptyMap == [n \in {} |-> None]

\* HashMap::insert: a later entry under the same name replaces the earlier
MapInsert(map, name, value) ==
    [n \in (DOMAIN map) \cup {name} |-> IF n = name THEN value ELSE map[n]]

\* get_network_interfaces that keeps the interfaces without an address
RECURSIVE get_network_interfaces_NoFilter(_)
get_network_interfaces_NoFilter(interfaces) ==
    IF interfaces = << >> THEN EmptyMap
    ELSE LET n == Len(interfaces)
             interface == interfaces[n]
         IN  MapInsert(get_network_interfaces_NoFilter(SubSeq(interfaces, 1, n - 1)),
                       interface.name, interface)

\* get_network_interfaces over the table datalink::interfaces() returns
RECURSIVE get_network_interfaces(_)
get_network_interfaces(interfaces) ==
    IF interfaces = << >> THEN EmptyMap
    ELSE LET n == Len(interfaces)
             interface == interfaces[n]
             map == get_network_interfaces(SubSeq(interfaces, 1, n - 1))
         IN  IF interface.ips # << >>
             THEN MapInsert(map, interface.name, interface)
             ELSE map

V4a == [fam |-> "V4", ip |-> << 192, 168, 1, 5 >>, prefix |-> 24]

\* the same address under another prefix: equal display string, other record
V4a32 == [fam |-> "V4", ip |-> << 192, 168, 1, 5 >>, prefix |-> 32]

V4l == [fam |-> "V4", ip |-> << 127, 0, 0, 1 >>, prefix |-> 8]

V6a == [fam |-> "V6", ip |-> << 65152, 0, 0, 0, 43981, 1, 2, 3 >>, prefix |-> 64]

V6l == [fam |-> "V6", ip |-> << 0, 0, 0, 0, 0, 0, 0, 1 >>, prefix |-> 128]

IfNames == { << "e", "0" >>, << "l", "o" >>, << "w", "0" >> }

(***************************************************************************)
(* get_network_interfaces on its own: every table of up to MaxIfs          *)
(* interfaces, names repeated or not, with and without addresses.          *)
(***************************************************************************)
CatalogIps == { << >>, << V4a >>, << V6a, V4l >> }

CatalogRecords == { [name |-> n, ips |-> a] : n \in IfNames, a \in CatalogIps }

InitCatalog ==
    /\ overflow_checks = FALSE
    /\ cat_os \in SeqsUpTo(CatalogRecords, MaxIfs)
    /\ cat_result = [kind |-> "Pending"]
    /\ PipelineIdle
    /\ SelectIdle
    /\ FormatIdle

CallGetNetworkInterfaces ==
    /\ cat_result = [kind |-> "Pending"]
    /\ cat_result' = [kind |-> "Returned", map |-> get_network_interfaces(cat_os)]
    /\ UNCHANGED << cat_os, overflow_checks >>
    /\ UNCHANGED pipeline_vars
    /\ UNCHANGED select_vars
    /\ UNCHANGED format_vars

NextCatalog == CallGetNetworkInterfaces

SpecCatalog == InitCatalog /\ [][NextCatalog]_vars

\* C8: the catalog holds no entry without an address, and it holds an entry
\* under the name x exactly when the OS reports an interface named x that
\* has at least one address.
C8_CatalogExactlyAddressed ==
    cat_result.kind = "Returned" =>
        /\ \A x \in DOMAIN cat_result.map : cat_result.map[x].ips # << >>
        /\ \A x \in IfNames :
              x \in DOMAIN cat_result.map
              <=> \E k \in 1..Len(cat_os) :
                     cat_os[k].name = x /\ cat_os[k].ips # << >>

C8_Witness ==
    /\ cat_result.kind = "Returned"
    /\ cat_os = << [name |-> << "l", "o" >>, ips |-> << V4a >>],
                   [name |-> << "e", "0" >>, ips |-> << >>] >>
    /\ DOMAIN cat_result.map = { << "l", "o" >> }

(***************************************************************************)
(* Sorting of names: Vec<String>::sort orders by the bytes of the text.    *)
(***************************************************************************)
\* the characters interface names are written with, in byte order
NameChars == << "0", "1", "2", "3", "4", "5", "6", "7", "8", "9",
                "a", "b", "c", "d", "e", "f", "g", "h", "i", "j", "k", "l", "m",
                "n", "o", "p", "q", "r", "s", "t", "u", "v", "w", "x", "y", "z" >>

Ord(c) == CHOOSE i \in 1..Len(NameChars) : NameChars[i] = c

\* a < b for String: the first differing byte decides, a proper prefix is less
RECURSIVE StrLess(_, _)
StrLess(a, b) ==
    IF b = << >> THEN FALSE
    ELSE IF a = << >> THEN TRUE
    ELSE IF Head(a) # Head(b) THEN Ord(Head(a)) < Ord(Head(b))
    ELSE StrLess(Tail(a), Tail(b))

RECURSIVE SortedInsert(_, _)
SortedInsert(x, sorted) ==
    IF sorted = << >> THEN << x >>
    ELSE IF StrLess(x, Head(sorted)) THEN << x >> \o sorted
    ELSE << Head(sorted) >> \o SortedInsert(x, Tail(sorted))

\* interface_names left in the iteration order of the map
sort_Omitted(names) == names

\* interface_names.sort(): stable, ascending
RECURSIVE sort(_)
sort(names) ==
    IF names = << >> THEN << >>
    ELSE SortedInsert(names[Len(names)], sort(SubSeq(names, 1, Len(names) - 1)))

\* interface_map.keys(): every key once, in an order the HashMap chooses
KeyOrders(map) ==
    { order \in [1..Cardinality(DOMAIN map) -> DOMAIN map] :
        \A i, j \in DOMAIN order : i # j => order[i] # order[j] }

(***************************************************************************)
(* Prompts. A prompt takes the input stream and returns the terminal       *)
(* events it produces, in order, its result, and the rest of the stream.  *)
(***************************************************************************)
Out(s) == [k |-> "out", s |-> s]

In(s) == [k |-> "in", s |-> s]

\* println!("{:#?}", ..) and println!("Arguments: {:?}", ..) of verbose runs
Debug(v) == [k |-> "debug", s |-> v]

MsgInterfaces ==
    << "F", "o", "u", "n", "d", " ", "n", "e", "t", "w", "o", "r", "k", " ",
       "i", "n", "t", "e", "r", "f", "a", "c", "e", "s", ",", " ",
       "c", "h", "o", "o", "s", "e", " ", "o", "n", "e", ":" >>

MsgAddress ==
    << "C", "h", "o", "o", "s", "e", " ", "a", "n", " ", "I", "P", " ",
       "a", "d", "d", "r", "e", "s", "s", ":" >>

\* println!("{} - {}", index, choice) for every candidate
CandidateLines(choices) ==
    [i \in 1..Len(choices) |-> Out(ToDecimal(i - 1) \o << " ", "-", " " >> \o choices[i])]

\* choose_number that asks again, once, when the first answer is refused
choose_number_Reprompt(message, choices, input) ==
    LET first == select_item(Head(input), choices)
    IN  IF first.kind = "Ok"
        THEN [io     |-> << Out(message) >> \o CandidateLines(choices)
                         \o << In(Head(input)) >>,
              result |-> first,
              rest   |-> Tail(input)]
        ELSE [io     |-> << Out(message) >> \o CandidateLines(choices)
                         \o << In(Head(input)), In(Head(Tail(input))) >>,
              result |-> select_item(Head(Tail(input)), choices),
              rest   |-> Tail(Tail(input))]

\* choose_number of lib.rs, and of main.rs with the body of select_item inline:
\* the message, the candidates, one read_line, then the selection
choose_number(message, choices, input) ==
    [io     |-> << Out(message) >> \o CandidateLines(choices) \o << In(Head(input)) >>,
     result |-> select_item(Head(input), choices),
     rest   |-> Tail(input)]

\* choose_ip that takes the family of the first address for every choice
choose_ip_FirstFamily(message, choices, input) ==
    LET call == choose_number(message, [i \in 1..Len(choices) |-> choices[i].s], input)
    IN  [io     |-> call.io,
         rest   |-> call.rest,
         result |-> IF call.result.kind = "Ok"
                    THEN [kind  |-> "Ok",
                          index |-> call.result.index,
                          value |-> [fam |-> choices[1].fam, s |-> call.result.value]]
                    ELSE call.result]

choose_ip(message, choices, input) ==
    LET call == choose_number(message, [i \in 1..Len(choices) |-> choices[i].s], input)
    IN  [io     |-> call.io,
         rest   |-> call.rest,
         result |-> IF call.result.kind = "Ok"
                    THEN LET tagged == Index(choices, call.result.index)
                         IN  IF tagged.panic THEN IndexOutOfBounds
                             ELSE [kind  |-> "Ok",
                                   index |-> call.result.index,
                                   value |-> [fam |-> tagged.val.fam,
                                              s   |-> call.result.value]]
                    ELSE call.result]

\* the interface prompt of lib.rs: the message, then choose_number with it
lib_interface_prompt(map, names, input) ==
    LET call == choose_number(MsgInterfaces, names, input)
    IN  [io     |-> << Out(MsgInterfaces) >> \o call.io,
         result |-> call.result,
         rest   |-> call.rest]

\* the interface prompt main.rs has inline; the bound is interface_map.len()
main_interface_prompt(map, names, input) ==
    LET parsed == ParseUsize(Head(input))
    IN  [io     |-> << Out(MsgInterfaces) >> \o CandidateLines(names)
                    \o << In(Head(input)) >>,
         result |-> IF ~parsed.ok THEN ParseError(parsed.kind)
                    ELSE BoundsCheck(parsed.val, Cardinality(DOMAIN map), names),
         rest   |-> Tail(input)]

(***************************************************************************)
(* Socket and URL.                                                         *)
(***************************************************************************)
Http == << "h", "t", "t", "p", ":", "/", "/" >>

create_socket(ip, port) ==
    IF ip.fam = "V4"
    THEN [fam |-> "V4", ip |-> ip.ip, port |-> port]
    ELSE [fam |-> "V6", ip |-> ip.ip, port |-> port, flowinfo |-> 0, scope_id |-> 0]

\* create_url that formats a V6 string like a V4 string
create_url_NoBrackets(ip, port) ==
    Http \o ip.s \o << ":" >> \o ToDecimal(port)

create_url(ip, port) ==
    IF ip.fam = "V4"
    THEN Http \o ip.s \o << ":" >> \o ToDecimal(port)
    ELSE Http \o << "[" >> \o ip.s \o << "]" >> \o << ":" >> \o ToDecimal(port)

\* the end of get_network_socket: the port is parsed once for each of the two
lib_endpoint(ip, ipaddr_string, port_text) ==
    LET port == ParseU16(port_text)
    IN  IF ~port.ok THEN ParseError(port.kind)
        ELSE [kind   |-> "Endpoint",
              url    |-> create_url(ipaddr_string, port.val),
              socket |-> create_socket(ip, port.val)]

\* main.rs: url and socket from a match on the chosen address record
main_endpoint(ip, ipaddr_string, port_text) ==
    LET port == ParseU16(port_text)
    IN  IF ~port.ok THEN ParseError(port.kind)
        ELSE IF ip.fam = "V4"
        THEN [kind   |-> "Endpoint",
              url    |-> Http \o ipaddr_string \o << ":" >> \o ToDecimal(port.val),
              socket |-> [fam |-> "V4", ip |-> ip.ip, port |-> port.val]]
        ELSE [kind   |-> "Endpoint",
              url    |-> Http \o << "[" >> \o ipaddr_string \o << "]" >> \o << ":" >>
                         \o ToDecimal(port.val),
              socket |-> [fam |-> "V6", ip |-> ip.ip, port |-> port.val,
                          flowinfo |-> 0, scope_id |-> 0]]

(***************************************************************************)
(* The program: run_rustbelt of lib.rs (entry = "lib") and main of         *)
(* main.rs (entry = "main").                                               *)
(*                                                                         *)
(* Positions: parse_args (main only), query, select_interface, choose_ip, *)
(* synthesize, gns_failed (get_network_socket returned Err), resolved,    *)
(* serving, and the ends exit_ok, exit_err, panicked, usage_error.        *)
(***************************************************************************)
IfE0 == << "e", "0" >>

IfLo == << "l", "o" >>

IfW0 == << "w", "0" >>

\* interface tables of the operating system, in the order it lists them
OsTables ==
    { << [name |-> IfLo, ips |-> << >>] >>,
      << [name |-> IfE0, ips |-> << V4a >>] >>,
      << [name |-> IfLo, ips |-> << V6l, V4l >>],
         [name |-> IfE0, ips |-> << V4a, V4a32 >>] >>,
      << [name |-> IfW0, ips |-> << V6a >>],
         [name |-> IfLo, ips |-> << V4l >>],
         [name |-> IfE0, ips |-> << V4a, V4a32 >>] >> }

NoInterface == [given |-> FALSE]

RequestedInterfaces ==
    { NoInterface, [given |-> TRUE, name |-> IfE0], [given |-> TRUE, name |-> IfLo] }

\* values of --port: a port, and a number that is no u16
Ports == { << "8", "0" >>, << "6", "5", "5", "3", "6" >> }

StdinLines ==
    { << "0", "\n" >>, << "1", "\n" >>, << "2", "\n" >>, << "x", "\n" >> }

\* The input stream holds a line for every read (the input collaborator
\* supplies one line per prompt); a third line shows what is left unread.
StdinStreams == { << a, b, << "0", "\n" >> >> : a \in StdinLines, b \in StdinLines }

Init ==
    /\ entry \in { "lib", "main" }
    /\ overflow_checks \in BOOLEAN
    /\ os_ifs \in OsTables
    /\ os_changes = 0
    /\ args \in [interface : RequestedInterfaces, port : Ports, verbose : BOOLEAN]
    /\ stdin \in StdinStreams
    /\ stdin0 = stdin
    /\ io = << >>
    /\ pc = IF entry = "main" THEN "parse_args" ELSE "query"
    /\ steps = << >>
    /\ interface_map = None
    /\ interface_names = << >>
    /\ network_interface = None
    /\ ip_choice = None
    /\ endpoint = None
    /\ err = None
    /\ top_err = None
    /\ server_started = FALSE
    /\ SelectIdle
    /\ CatalogIdle
    /\ FormatIdle

\* where a failed step leaves the program: a panic aborts it; an Err leaves
\* get_network_socket (lib) or main itself (main)
FailPc(e) ==
    IF e.kind = "Panic" THEN "panicked"
    ELSE IF entry = "lib" THEN "gns_failed"
    ELSE "exit_err"

FailTop(e) == IF e.kind # "Panic" /\ entry = "main" THEN e ELSE top_err

\* main: clap parses and validates the arguments; the validator of
\* --interface queries the interfaces itself, that of --port parses a u16
ParseArgs ==
    /\ pc = "parse_args"
    /\ LET valid ==
               /\ args.interface.given
                  => args.interface.name \in DOMAIN get_network_interfaces(os_ifs)
               /\ ParseU16(args.port).ok
       IN  /\ pc' = IF valid THEN "query" ELSE "usage_error"
           /\ io' = IF valid /\ args.verbose THEN Append(io, Debug(args)) ELSE io
    /\ UNCHANGED << entry, overflow_checks, os_ifs, os_changes, args, stdin, stdin0,
                    steps, interface_map, interface_names, network_interface,
                    ip_choice, endpoint, err, top_err, server_started >>
    /\ UNCHANGED select_vars
    /\ UNCHANGED catalog_vars
    /\ UNCHANGED format_vars

\* the environment: the interfaces change before the resolution queries them
OsChange ==
    /\ pc = "query"
    /\ os_changes < MaxOsChanges
    /\ \E table \in OsTables \ { os_ifs } : os_ifs' = table
    /\ os_changes' = os_changes + 1
    /\ UNCHANGED << entry, overflow_checks, args, stdin, stdin0, io, pc,
                    steps, interface_map, interface_names, network_interface,
                    ip_choice, endpoint, err, top_err, server_started >>
    /\ UNCHANGED select_vars
    /\ UNCHANGED catalog_vars
    /\ UNCHANGED format_vars

\* let interface_map = get_network_interfaces();
QueryCatalog ==
    /\ pc = "query"
    /\ interface_map' = get_network_interfaces(os_ifs)
    /\ steps' = Append(steps, "catalog")
    /\ pc' = "select_interface"
    /\ UNCHANGED << entry, overflow_checks, os_ifs, os_changes, args, stdin, stdin0,
                    io, interface_names, network_interface,
                    ip_choice, endpoint, err, top_err, server_started >>
    /\ UNCHANGED select_vars
    /\ UNCHANGED catalog_vars
    /\ UNCHANGED format_vars

\* what a requested name that the catalog lacks ends in
InterfaceMissing(name) ==
    IF entry = "lib"
    THEN NetworkInterfaceExistanceError_new(name)
    ELSE Panic("Network interface not found!")

\* the branch of a requested interface name
LookupInterface ==
    /\ pc = "select_interface"
    /\ args.interface.given
    /\ steps' = Append(steps, "lookup")
    /\ IF args.interface.name \in DOMAIN interface_map
       THEN /\ network_interface' = interface_map[args.interface.name]
            /\ pc' = "choose_ip"
            /\ UNCHANGED << err, top_err >>
       ELSE /\ err' = InterfaceMissing(args.interface.name)
            /\ pc' = FailPc(err')
            /\ top_err' = FailTop(err')
            /\ UNCHANGED network_interface
    /\ UNCHANGED << entry, overflow_checks, os_ifs, os_changes, args, stdin, stdin0,
                    io, interface_map, interface_names,
                    ip_choice, endpoint, server_started >>
    /\ UNCHANGED select_vars
    /\ UNCHANGED catalog_vars
    /\ UNCHANGED format_vars

\* the branch without a requested name: the sorted names are presented
PromptInterface ==
    /\ pc = "select_interface"
    /\ ~args.interface.given
    /\ \E order \in KeyOrders(interface_map) :
          LET names == sort(order)
              call  == IF entry = "lib"
                       THEN lib_interface_prompt(interface_map, names, stdin)
                       ELSE main_interface_prompt(interface_map, names, stdin)
              name  == IF call.result.kind = "Ok"
                       THEN Index(names, call.result.index)
                       ELSE [panic |-> FALSE]
          IN  /\ interface_names' = names
              /\ io' = io \o call.io
              /\ stdin' = call.rest
              /\ IF call.result.kind = "Ok" /\ ~name.panic
                 THEN /\ network_interface' = interface_map[name.val]
                      /\ pc' = "choose_ip"
                      /\ UNCHANGED << err, top_err >>
                 ELSE /\ err' = IF name.panic THEN IndexOutOfBounds ELSE call.result
                      /\ pc' = FailPc(err')
                      /\ top_err' = FailTop(err')
                      /\ UNCHANGED network_interface
    /\ steps' = Append(steps, "interface_prompt")
    /\ UNCHANGED << entry, overflow_checks, os_ifs, os_changes, args, stdin0,
                    interface_map, ip_choice, endpoint, server_started >>
    /\ UNCHANGED select_vars
    /\ UNCHANGED catalog_vars
    /\ UNCHANGED format_vars

\* the address prompt: choose_ip over IpStrings (lib), choose_number over the
\* display strings (main)
ChooseIp ==
    /\ pc = "choose_ip"
    /\ LET ips     == network_interface.ips
           verbose == IF args.verbose THEN << Debug(network_interface) >> ELSE << >>
           call    == IF entry = "lib"
                      THEN choose_ip(MsgAddress,
                                     [i \in 1..Len(ips) |-> ToIpString(ips[i])], stdin)
                      ELSE choose_number(MsgAddress,
                                     [i \in 1..Len(ips) |-> IpDisplay(ips[i])], stdin)
       IN  /\ io' = io \o verbose \o call.io
           /\ stdin' = call.rest
           /\ IF call.result.kind = "Ok"
              THEN /\ ip_choice' = call.result
                   /\ pc' = "synthesize"
                   /\ UNCHANGED << err, top_err >>
              ELSE /\ err' = call.result
                   /\ pc' = FailPc(err')
                   /\ top_err' = FailTop(err')
                   /\ UNCHANGED ip_choice
    /\ steps' = Append(steps, "address_prompt")
    /\ UNCHANGED << entry, overflow_checks, os_ifs, os_changes, args, stdin0,
                    interface_map, interface_names, network_interface,
                    endpoint, server_started >>
    /\ UNCHANGED select_vars
    /\ UNCHANGED catalog_vars
    /\ UNCHANGED format_vars

\* socket and URL from the chosen address and the port
Synthesize ==
    /\ pc = "synthesize"
    /\ LET ip     == Index(network_interface.ips, ip_choice.index)
           result == IF ip.panic THEN IndexOutOfBounds
                     ELSE IF entry = "lib"
                     THEN lib_endpoint(ip.val, ip_choice.value, args.port)
                     ELSE main_endpoint(ip.val, ip_choice.value, args.port)
       IN  IF result.kind = "Endpoint"
           THEN /\ endpoint' = result
                /\ pc' = "resolved"
                /\ UNCHANGED << err, top_err >>
           ELSE /\ err' = result
                /\ pc' = FailPc(err')
                /\ top_err' = FailTop(err')
                /\ UNCHANGED endpoint
    /\ steps' = Append(steps, "synthesis")
    /\ UNCHANGED << entry, overflow_checks, os_ifs, os_changes, args, stdin, stdin0,
                    io, interface_map, interface_names, network_interface,
                    ip_choice, server_started >>
    /\ UNCHANGED select_vars
    /\ UNCHANGED catalog_vars
    /\ UNCHANGED format_vars

\* run_rustbelt that goes on to serve after a failed resolution
RunRustbelt_Err_Ignored ==
    /\ pc = "gns_failed"
    /\ server_started' = TRUE
    /\ pc' = "serving"
    /\ UNCHANGED << entry, overflow_checks, os_ifs, os_changes, args, stdin, stdin0,
                    io, steps, interface_map, interface_names, network_interface,
                    ip_choice, endpoint, err, top_err >>
    /\ UNCHANGED select_vars
    /\ UNCHANGED catalog_vars
    /\ UNCHANGED format_vars

\* let (url, socket) = get_network_socket(matches)?;  on Err: returned as it is
RunRustbelt_Err ==
    /\ pc = "gns_failed"
    /\ top_err' = err
    /\ pc' = "exit_err"
    /\ UNCHANGED << entry, overflow_checks, os_ifs, os_changes, args, stdin, stdin0,
                    io, steps, interface_map, interface_names, network_interface,
                    ip_choice, endpoint, err, server_started >>
    /\ UNCHANGED select_vars
    /\ UNCHANGED catalog_vars
    /\ UNCHANGED format_vars

Listening == << "L", "i", "s", "t", "e", "n", "i", "n", "g", " ", "o", "n", " " >>

\* the URL is printed, its QR code rendered, and run_http_server binds the socket
RunHttpServer ==
    /\ pc = "resolved"
    /\ io' = io \o << Out(Listening \o endpoint.url), [k |-> "qr", s |-> endpoint.url] >>
    /\ server_started' = TRUE
    /\ pc' = "serving"
    /\ UNCHANGED << entry, overflow_checks, os_ifs, os_changes, args, stdin, stdin0,
                    steps, interface_map, interface_names, network_interface,
                    ip_choice, endpoint, err, top_err >>
    /\ UNCHANGED select_vars
    /\ UNCHANGED catalog_vars
    /\ UNCHANGED format_vars

ShuttingDown ==
    << "S", "h", "u", "t", "t", "i", "n", "g", " ", "d", "o", "w", "n", " ",
       "s", "e", "r", "v", "e", "r" >>

\* ctrl-c: the server shuts down gracefully and the program returns Ok(())
ShutdownSignal ==
    /\ pc = "serving"
    /\ io' = Append(io, Out(ShuttingDown))
    /\ pc' = "exit_ok"
    /\ UNCHANGED << entry, overflow_checks, os_ifs, os_changes, args, stdin, stdin0,
                    steps, interface_map, interface_names, network_interface,
                    ip_choice, endpoint, err, top_err, server_started >>
    /\ UNCHANGED select_vars
    /\ UNCHANGED catalog_vars
    /\ UNCHANGED format_vars

Next ==
    \/ ParseArgs
    \/ OsChange
    \/ QueryCatalog
    \/ LookupInterface
    \/ PromptInterface
    \/ ChooseIp
    \/ Synthesize
    \/ RunRustbelt_Err
    \/ RunHttpServer
    \/ ShutdownSignal

Spec == Init /\ [][Next]_vars

Terminated == pc \in { "exit_ok", "exit_err", "panicked", "usage_error" }

(***************************************************************************)
(* Claims about the resolution (checked under Spec).                       *)
(***************************************************************************)
InSteps(x) == \E i \in 1..Len(steps) : steps[i] = x

IsPrefix(a, b) == Len(a) <= Len(b) /\ SubSeq(b, 1, Len(a)) = a

\* the lines read so far, in the order they were read
LinesRead ==
    LET reads == SelectSeq(io, LAMBDA e : e.k = "in")
    IN  [i \in 1..Len(reads) |-> reads[i].s]

Failed == err # None

\* the resolution has returned, with a pair or an error, or has panicked
ResolutionEnded ==
    pc \in { "gns_failed", "resolved", "serving", "exit_ok", "exit_err", "panicked" }

\* C4 as claimed: with an empty catalog and no requested name the prompt is
\* presented with zero candidates and, for every input line, the resolution
\* ends by returning a ParseError or a BoundsError to the caller, without a
\* crash and without an arithmetic underflow (a bounds error's high bound is
\* the number of candidates minus one).
C4_EmptyCatalogReturnsError ==
    ( InSteps("interface_prompt") /\ DOMAIN interface_map = {} ) =>
        /\ interface_names = << >>
        /\ pc \in { "gns_failed", "exit_err" }
        /\ err.kind \in { "ParseError", "ChoiceError" }
        /\ err.kind = "ChoiceError" => err.high = Len(interface_names) - 1
        /\ pc = "exit_err" => top_err = err

\* C5 as claimed: a requested name the catalog snapshot lacks ends the
\* resolution with NetworkInterfaceExistanceError(name) returned as an error
\* value; no prompt is shown and no address is resolved.
C5_MissingInterfaceIsErrorValue ==
    ( /\ InSteps("lookup")
      /\ args.interface.name \notin DOMAIN interface_map ) =>
        /\ pc \in { "gns_failed", "exit_err" }
        /\ err = NetworkInterfaceExistanceError_new(args.interface.name)
        /\ pc = "exit_err" => top_err = err
        /\ LinesRead = << >>
        /\ ip_choice = None
        /\ endpoint = None

StepOrders ==
    { << "catalog", "lookup", "address_prompt", "synthesis" >>,
      << "catalog", "interface_prompt", "address_prompt", "synthesis" >> }

C6_Linear ==
    /\ \E order \in StepOrders : IsPrefix(steps, order)
    /\ server_started =>
          /\ steps \in StepOrders
          /\ endpoint.kind = "Endpoint"
          /\ ~Failed
    /\ Failed => ~server_started /\ endpoint = None
    /\ pc = "exit_err" => Failed /\ top_err = err

C6_NoStepAfterFailure ==
    Failed => /\ steps' = steps
              /\ err' = err
              /\ ~server_started'
              /\ stdin' = stdin
              /\ pc' \in { pc, "exit_err" }

\* C6: the steps run in the order catalog query, interface choice, address
\* choice, synthesis, each at most once; once a step has failed no later
\* step runs, the error reaches the top unchanged and the server is never
\* started; the server is started only after a resolution that returned a
\* (URL, socket) pair.
C6_LinearPipeline == [](C6_Linear) /\ [][C6_NoStepAfterFailure]_vars

C6_Witness ==
    /\ entry = "lib"
    /\ steps = << "catalog", "interface_prompt", "address_prompt" >>
    /\ pc = "exit_err"
    /\ top_err.kind = "ChoiceError"
    /\ ~server_started

PromptsRun ==
    Len(SelectSeq(steps, LAMBDA x : x \in { "interface_prompt", "address_prompt" }))

\* C7: every prompt consumes exactly one line of the input stream, whatever
\* its result, so the lines read are the first lines of the stream, one per
\* prompt run; a resolution reads at most two lines: exactly one when an
\* existing interface name was requested, none when the requested name is
\* absent; a failed interface prompt leaves the second line unread.
C7_OneLinePerPrompt ==
    /\ LinesRead \o stdin = stdin0
    /\ Len(LinesRead) = PromptsRun
    /\ Len(LinesRead) <= 2
    /\ ( ResolutionEnded /\ InSteps("lookup") ) =>
          Len(LinesRead) = IF args.interface.name \in DOMAIN interface_map
                           THEN 1 ELSE 0
    /\ ( InSteps("interface_prompt") /\ Failed /\ ~InSteps("address_prompt") ) =>
          stdin = Tail(stdin0)

C7_Witness ==
    /\ steps = << "catalog", "interface_prompt" >>
    /\ err.kind = "ChoiceError"
    /\ interface_names # << >>
    /\ LinesRead = << << "2", "\n" >> >>
    /\ stdin = Tail(stdin0)
    /\ pc = "exit_err"

\* a < b in ascending lexicographic order: at the first position where the
\* two differ a has the lesser character, or a ends there
LexLess(a, b) ==
    \E k \in 1..Len(b) :
        /\ \A j \in 1..(k - 1) : j <= Len(a) /\ a[j] = b[j]
        /\ ( Len(a) < k \/ Ord(a[k]) < Ord(b[k]) )

Printed(text) == \E k \in 1..Len(io) : io[k].k = "out" /\ io[k].s = text

\* C9: whatever the iteration order of the map, the candidates presented
\* are the catalog's names in ascending lexicographic order, and a valid
\* input i selects the interface under the name that has exactly i catalog
\* names below it: the choice is a function of the interface set and the
\* input line alone.
C9_SortedDeterministicPrompt ==
    InSteps("interface_prompt") =>
        /\ Len(interface_names) = Cardinality(DOMAIN interface_map)
        /\ { interface_names[i] : i \in 1..Len(interface_names) } = DOMAIN interface_map
        /\ \A i, j \in 1..Len(interface_names) :
              i < j => LexLess(interface_names[i], interface_names[j])
        /\ \A i \in 1..Len(interface_names) :
              Printed(ToDecimal(i - 1) \o << " ", "-", " " >> \o interface_names[i])
        /\ network_interface # None =>
              /\ IsNonNegInt(LinesRead[1])
              /\ \E n \in DOMAIN interface_map :
                    /\ Cardinality({ m \in DOMAIN interface_map : LexLess(m, n) })
                          = ParseUsize(LinesRead[1]).val
                    /\ network_interface = interface_map[n]

C9_Witness ==
    /\ InSteps("interface_prompt")
    /\ os_ifs[1].name = IfW0
    /\ interface_names = << IfE0, IfLo, IfW0 >>
    /\ LinesRead = << << "2", "\n" >> >>
    /\ network_interface.name = IfW0

\* the host of the URL of an address: its display string, in brackets for V6
UrlHost(a) ==
    IF a.fam = "V6" THEN << "[" >> \o IpDisplay(a) \o << "]" >> ELSE IpDisplay(a)

\* C10: for an interface with addresses a[0..m-1] and a valid input k the
\* address prompt presents the display strings in the order of a, the result
\* has index k and the family of a[k], and the endpoint's socket is
\* (a[k], port), with flowinfo 0 and scope id 0 for V6, and its URL is
\* "http://" host ":" port with the display string of a[k] as host,
\* bracketed exactly when a[k] is V6; also when display strings are equal.
C10_AddressMapsBack ==
    ( InSteps("address_prompt") /\ ip_choice # None ) =>
        LET a    == network_interface.ips
            line == LinesRead[Len(LinesRead)]
            k    == DecimalValue(Trim(line))
        IN  /\ IsNumeric(line)
            /\ k < Len(a)
            /\ \A i \in 1..Len(a) :
                  Printed(ToDecimal(i - 1) \o << " ", "-", " " >> \o IpDisplay(a[i]))
            /\ ip_choice.index = k
            /\ entry = "lib" =>
                  ip_choice.value = [fam |-> a[k + 1].fam, s |-> IpDisplay(a[k + 1])]
            /\ entry = "main" => ip_choice.value = IpDisplay(a[k + 1])
            /\ endpoint # None =>
                  /\ endpoint.socket.fam = a[k + 1].fam
                  /\ endpoint.socket.ip = a[k + 1].ip
                  /\ endpoint.socket.port = DecimalValue(args.port)
                  /\ a[k + 1].fam = "V6" =>
                        endpoint.socket.flowinfo = 0 /\ endpoint.socket.scope_id = 0
                  /\ endpoint.url = Http \o UrlHost(a[k + 1]) \o << ":" >> \o args.port

C10_Witness ==
    /\ endpoint.kind = "Endpoint"
    /\ entry = "lib"
    /\ network_interface.ips = << V4a, V4a32 >>
    /\ LinesRead[Len(LinesRead)] = << "1", "\n" >>
    /\ ip_choice = [kind |-> "Ok", index |-> 1,
                    value |-> [fam |-> "V4", s |-> << "1", "9", "2", ".", "1", "6", "8",
                                                      ".", "1", ".", "5" >>]]
    /\ endpoint.socket = [fam |-> "V4", ip |-> << 192, 168, 1, 5 >>, port |-> 80]

(***************************************************************************)
(* create_url on its own: display strings of both families under either   *)
(* tag, and ports over the whole range of u16, as test_url_creation_v4    *)
(* and test_url_creation_v6 call it.                                      *)
(***************************************************************************)
UrlStrings == { IpDisplay(V4a), IpDisplay(V4l), IpDisplay(V6a), IpDisplay(V6l) }

\* ports at both ends of u16 and around every change of the digit count
UrlPorts == { 0, 1, 9, 10, 80, 99, 100, 999, 1000, 3000, 8080, 9999, 10000,
              65535 }

InitUrl ==
    /\ overflow_checks = FALSE
    /\ url_ip \in [fam : { "V4", "V6" }, s : UrlStrings]
    /\ url_port \in UrlPorts
    /\ url_result = [kind |-> "Pending"]
    /\ v6_segments = << >>
    /\ v6_result = None
    /\ PipelineIdle
    /\ SelectIdle
    /\ CatalogIdle

CallCreateUrl ==
    /\ url_result = [kind |-> "Pending"]
    /\ url_result' = [kind |-> "Returned", url |-> create_url(url_ip, url_port)]
    /\ UNCHANGED << url_ip, url_port, v6_segments, v6_result, overflow_checks >>
    /\ UNCHANGED pipeline_vars
    /\ UNCHANGED select_vars
    /\ UNCHANGED catalog_vars

NextUrl == CallCreateUrl

SpecUrl == InitUrl /\ [][NextUrl]_vars

\* the text is the decimal numeral of n: digits only, no leading zero
IsDecimalOf(text, n) ==
    /\ AllDigits(text)
    /\ DecimalValue(text) = n
    /\ Len(text) = 1 \/ text[1] # "0"

Contains(text, c) == \E k \in 1..Len(text) : text[k] = c

\* C11: create_url returns, for a V4 string s, "http://" s ":" and the
\* decimal port, and for a V6 string s, "http://[" s "]:" and the decimal
\* port; the brackets appear exactly when the tag is V6.
C11_UrlFormat ==
    url_result.kind = "Returned" =>
        LET url  == url_result.url
            head == IF url_ip.fam = "V4"
                    THEN << "h", "t", "t", "p", ":", "/", "/" >> \o url_ip.s \o << ":" >>
                    ELSE << "h", "t", "t", "p", ":", "/", "/", "[" >> \o url_ip.s
                         \o << "]", ":" >>
        IN  /\ IsPrefix(head, url)
            /\ IsDecimalOf(SubSeq(url, Len(head) + 1, Len(url)), url_port)
            /\ Contains(url, "[") <=> url_ip.fam = "V6"
            /\ Contains(url, "]") <=> url_ip.fam = "V6"

C11_Witness ==
    /\ url_ip = [fam |-> "V4",
                 s |-> << "1", "9", "2", ".", "1", "6", "8", ".", "1", ".", "5" >>]
    /\ url_port = 8080
    /\ url_result.kind = "Returned"
    /\ url_result.url = << "h", "t", "t", "p", ":", "/", "/", "1", "9", "2", ".",
                           "1", "6", "8", ".", "1", ".", "5", ":", "8", "0", "8", "0" >>

(***************************************************************************)
(* The display of an IPv6 address on its own: the eight segments of an    *)
(* Ipv6Addr are u16 values, formatted by get_network_socket and by main.  *)
(***************************************************************************)
\* segment values at both ends of u16 and around every change of the digit count
SegmentEdges == { 0, 1, 15, 16, 255, 256, 4095, 4096, 43981, 65535 }

V6Segments ==
    [1..8 -> { 0, 171, 65535 }]
    \cup { [k \in 1..8 |-> IF k = p THEN v ELSE w] :
             p \in 1..8, v \in SegmentEdges, w \in { 0, 4096 } }

InitV6 ==
    /\ overflow_checks = FALSE
    /\ v6_segments \in V6Segments
    /\ v6_result = [kind |-> "Pending"]
    /\ url_ip = None
    /\ url_port = 0
    /\ url_result = None
    /\ PipelineIdle
    /\ SelectIdle
    /\ CatalogIdle

CallIpDisplay ==
    /\ v6_result = [kind |-> "Pending"]
    /\ v6_result' = [kind |-> "Returned",
                     s |-> IpDisplay([fam |-> "V6", ip |-> v6_segments,
                                      prefix |-> 64])]
    /\ UNCHANGED << v6_segments, url_ip, url_port, url_result, overflow_checks >>
    /\ UNCHANGED pipeline_vars
    /\ UNCHANGED select_vars
    /\ UNCHANGED catalog_vars

NextV6 == CallIpDisplay

SpecV6 == InitV6 /\ [][NextV6]_vars

\* the pieces of text between the occurrences of the character c
RECURSIVE Split(_, _)
Split(text, c) ==
    IF \A k \in 1..Len(text) : text[k] # c THEN << text >>
    ELSE LET at == CHOOSE k \in 1..Len(text) :
                       text[k] = c /\ \A j \in 1..(k - 1) : text[j] # c
         IN  << SubSeq(text, 1, at - 1) >>
             \o Split(SubSeq(text, at + 1, Len(text)), c)

LowerHex == { "0", "1", "2", "3", "4", "5", "6", "7", "8", "9",
              "a", "b", "c", "d", "e", "f" }

RECURSIVE HexValue(_)
HexValue(group) ==
    IF group = << >> THEN 0
    ELSE 16 * HexValue(SubSeq(group, 1, Len(group) - 1))
         + (CHOOSE i \in 1..16 : HexDigits[i] = group[Len(group)]) - 1

\* C12: the display string of eight 16-bit segments is 8 groups separated by
\* 7 colons, in segment order; each group is the lowercase hexadecimal value
\* of its segment, 1 to 4 digits without zero padding (0 renders as "0");
\* no group is empty and there is no "::".
C12_V6Display ==
    v6_result.kind = "Returned" =>
        LET text   == v6_result.s
            groups == Split(text, ":")
        IN  /\ Cardinality({ k \in 1..Len(text) : text[k] = ":" }) = 7
            /\ Len(groups) = 8
            /\ \A k \in 1..(Len(text) - 1) : ~(text[k] = ":" /\ text[k + 1] = ":")
            /\ \A i \in 1..8 :
                /\ Len(groups[i]) \in 1..4
                /\ \A k \in 1..Len(groups[i]) : groups[i][k] \in LowerHex
                /\ Len(groups[i]) = 1 \/ groups[i][1] # "0"
                /\ HexValue(groups[i]) = v6_segments[i]
                /\ v6_segments[i] = 0 => groups[i] = << "0" >>

C12_Witness ==
    /\ v6_segments = << 0, 0, 0, 43981, 0, 0, 0, 0 >>
    /\ v6_result.kind = "Returned"
    /\ v6_result.s = << "0", ":", "0", ":", "0", ":", "a", "b", "c", "d", ":",
                        "0", ":", "0", ":", "0", ":", "0" >>

(***************************************************************************)
(* The output of the selection interactions (checked under Spec).          *)
(***************************************************************************)
\* what one selection interaction renders and reads, as claimed
Interaction(message, choices, line) ==
    << Out(message) >> \o CandidateLines(choices) \o << In(line) >>

\* the events of the terminal apart from the verbose dumps
Terminal == SelectSeq(io, LAMBDA e : e.k # "debug")

\* C13 as claimed: every selection interaction of a resolution, the interface
\* prompt and the address prompt alike, produces the message once, then one
\* line "<index> - <label>" per candidate in input order with the indices
\* 0..n-1, then the single read; nothing is rendered twice and nothing is
\* rendered after the read.
C13_InteractionOrder ==
    ~server_started =>
        Terminal =
            ( IF InSteps("interface_prompt")
              THEN Interaction(MsgInterfaces, interface_names, LinesRead[1])
              ELSE << >> )
            \o
            ( IF InSteps("address_prompt")
              THEN Interaction(MsgAddress,
                               [i \in 1..Len(network_interface.ips) |->
                                    IpDisplay(network_interface.ips[i])],
                               LinesRead[Len(LinesRead)])
              ELSE << >> )

(***************************************************************************)
(* Indexing by the selected numbers (checked under Spec).                  *)
(***************************************************************************)
\* the interface prompt has returned a selection
InterfaceSelected ==
    /\ InSteps("interface_prompt")
    /\ network_interface # None

\* C14: with a non-empty catalog no step of the resolution indexes a
\* sequence out of range, whatever the lines read: the number a successful
\* selection returns is below the length of the sorted interface names, of
\* the label list of the address prompt and of the chosen interface's
\* address list, each of which is as long as the candidate list presented.
C14_IndexInRange ==
    ( InSteps("catalog") /\ DOMAIN interface_map # {} ) =>
        /\ err # IndexOutOfBounds
        /\ InSteps("interface_prompt") =>
              Len(interface_names) = Cardinality(DOMAIN interface_map)
        /\ InterfaceSelected =>
              /\ ParseUsize(LinesRead[1]).ok
              /\ ParseUsize(LinesRead[1]).val < Len(interface_names)
              /\ network_interface =
                    interface_map[interface_names[ParseUsize(LinesRead[1]).val + 1]]
        /\ ip_choice # None =>
              /\ ip_choice.index < Len(network_interface.ips)
              /\ ip_choice.index = ParseUsize(LinesRead[Len(LinesRead)]).val
              /\ ( IF entry = "lib" THEN ip_choice.value.s ELSE ip_choice.value )
                    = IpDisplay(network_interface.ips[ip_choice.index + 1])

\* the last name and the last address of their lists are selected
C14_Witness ==
    /\ DOMAIN interface_map # {}
    /\ InterfaceSelected
    /\ Len(interface_names) = 2
    /\ LinesRead[1] = << "1", "\n" >>
    /\ ip_choice # None
    /\ Len(network_interface.ips) = 2
    /\ ip_choice.index = 1
    /\ endpoint # None
    /\ endpoint.kind = "Endpoint"

====
